---- MODULE Spec2Model ----
(***************************************************************************)
(* Model of qiskit/aqua/components/qsve/qsve.py: the BinaryTree that       *)
(* stores one matrix row as a sum tree of squared magnitudes, its state    *)
(* preparation circuit, and the QSVE engine that keeps one tree per row.   *)
(*                                                                         *)
(* Numbers.  The code computes with floating point numbers; the model      *)
(* computes with exact reals.  Inputs are small integers, and the only     *)
(* irrational the code introduces into stored data is the Frobenius norm   *)
(* sqrt(S) that shift_matrix adds to the diagonal, so a stored number is   *)
(* a + b*sqrt(r), written [a |-> a, b |-> b, r |-> r], with r = 0 when     *)
(* b = 0 and r not a perfect square otherwise.  Rounding is not modelled.  *)
(*                                                                         *)
(* Python lists are functions on 0..n-1, so that the index arithmetic of   *)
(* the source (2i, 2i+1, i // 2, negative indices) is kept as written.     *)
(***************************************************************************)
EXTENDS Integers, Sequences, FiniteSets, TLC

VARIABLES
    self,       \* BinaryTree spec: the fields _nvals, _values, _tree of the instance
    built,      \* BinaryTree spec: TRUE iff the constructor returned an instance
    qsve,       \* QSVE spec: the fields _matrix, _trees, _shifted (and sizes) of the instance
    original,   \* the caller's object: the matrix passed to QSVE(matrix); in SpecOwner also the vector passed to BinaryTree(vector)
    shiftCalls, \* QSVE spec: how many times shift_matrix has been called (history)
    circuit,    \* QSVE spec: the caller's QuantumCircuit, which build is given
    treeUpdates, \* QSVE spec: how many times the caller has updated a tree that get_tree returned (history)
    stored,     \* which object the instance keeps as _values or _matrix: "arg" is the caller's own
    ret         \* the last call: [op, args, exc, val]

vars == <<self, built, qsve, original, shiftCalls, circuit, treeUpdates, stored, ret>>

\* ---------------------------------------------------------------- bounds

\* Vectors passed to BinaryTree have 0..MaxLen entries.
MaxLen == 4
\* Vector and matrix entries, and values written by update_entry, are in -MaxVal..MaxVal.
MaxVal == 1
\* Matrices passed to QSVE have 1..MaxDim rows and 1..MaxDim columns.
MaxDim == 2
\* shift_matrix is called at most MaxShiftCalls times on an instance.
MaxShiftCalls == 3
\* Control registers have 1..MaxCtrl qubits.
MaxCtrl == 2
\* The target register may have up to MaxSpare qubits more than log2(number of leaves).
MaxSpare == 2
\* The caller's circuit has MaxRegs - 1 or MaxRegs quantum registers.
MaxRegs == 4
\* The registers passed to build have 1..MaxQubits qubits.
MaxQubits == 2
\* The caller updates a tree obtained from get_tree at most MaxTreeUpdates times.
MaxTreeUpdates == 1

\* Most bits of a measured bit string.
MaxBits == 4

Vals == (0 - MaxVal)..MaxVal

\* ---------------------------------------------------------------- Python lists

None == [none |-> TRUE]

Len0(l) == Cardinality(DOMAIN l)

EmptyList == [i \in {} |-> 0]

Append0(l, x) == [i \in 0..Len0(l) |-> IF i < Len0(l) THEN l[i] ELSE x]

\* Reversed without the reversal: the lists stay in building order.
ReversedKeepsOrder(l) == l

Reversed(l) == [i \in DOMAIN l |-> l[Len0(l) - 1 - i]]

\* Python's index rule: -n..-1 count from the end; anything else outside 0..n-1 raises IndexError.
ValidIndex(l, i) == (0 - Len0(l)) <= i /\ i < Len0(l)

PyIndex(l, i) == IF i < 0 THEN i + Len0(l) ELSE i

Lists(n, S) == [0..(n - 1) -> S]

\* A list or array object: which object it is and what it holds.  Two names of
\* one object see each other's item assignments.
Object(id, val) == [id |-> id, val |-> val]

\* deepcopy handing back its argument.
deepcopy_SameObject(o) == o

\* copy.deepcopy: a new object with the same contents.
deepcopy(o) == Object("copy", o.val)

\* list(vector): a new list with the same elements.
ListOf(o) == Object("list", o.val)

\* ---------------------------------------------------------------- exact reals

R(n) == [a |-> n, b |-> 0, r |-> 0]

MaxOf(x, y) == IF x >= y THEN x ELSE y

IntSign(n) == IF n > 0 THEN 1 ELSE IF n < 0 THEN 0 - 1 ELSE 0

RNorm(a, b, r) == [a |-> a, b |-> b, r |-> IF b = 0 THEN 0 ELSE r]

RAdd(x, y) == RNorm(x.a + y.a, x.b + y.b, MaxOf(x.r, y.r))

RNeg(x) == [a |-> 0 - x.a, b |-> 0 - x.b, r |-> x.r]

RMul(x, y) ==
    LET r == MaxOf(x.r, y.r)
    IN  RNorm(x.a * y.a + x.b * y.b * r, x.a * y.b + x.b * y.a, r)

\* Sign of a + b*sqrt(r): compare a^2 with b^2*r when the two parts pull apart.
RSign(x) ==
    IF x.b = 0 THEN IntSign(x.a)
    ELSE IF x.a = 0 THEN IntSign(x.b)
    ELSE IF IntSign(x.a) = IntSign(x.b) THEN IntSign(x.a)
    ELSE IF x.a * x.a > x.b * x.b * x.r THEN IntSign(x.a)
    ELSE IntSign(x.b)

RAbs(x) == IF RSign(x) < 0 THEN RNeg(x) ELSE x

IsSquare(n) == \E k \in 0..n : k * k = n

IntRoot(n) == CHOOSE k \in 0..n : k * k = n

\* np.sqrt of a non-negative real.  sqrt of an integer n is an integer when n is
\* a perfect square and the new irrational sqrt(n) otherwise; the square root of a
\* number that already has an irrational part is kept as a symbol.
RSqrt(x) ==
    IF x.b = 0 /\ x.a >= 0
    THEN IF IsSquare(x.a) THEN R(IntRoot(x.a)) ELSE [a |-> 0, b |-> 1, r |-> x.a]
    ELSE [sqrtOf |-> x]

RSquare(y) == IF "sqrtOf" \in DOMAIN y THEN y.sqrtOf ELSE RMul(y, y)

\* ---------------------------------------------------------------- BinaryTree

RECURSIVE CeilLog2(_)
CeilLog2(n) == IF n <= 1 THEN 0 ELSE 1 + CeilLog2((n + 1) \div 2)

RECURSIVE Pow2(_)
Pow2(n) == IF n <= 0 THEN 1 ELSE 2 * Pow2(n - 1)

\* Python's & on unbounded two's complement integers.
RECURSIVE BitAnd(_, _)
BitAnd(x, y) ==
    IF x = 0 \/ y = 0 THEN 0
    ELSE IF x = 0 - 1 THEN y
    ELSE IF y = 0 - 1 THEN x
    ELSE (x % 2) * (y % 2) + 2 * BitAnd(x \div 2, y \div 2)

\* The constructor's test: n & (n - 1) != 0.
NotPowerOfTwoTest(n) == BitAnd(n, n - 1) /= 0

\* The summing loop adding each left element to itself instead of to its neighbour.
SumAdjacentLeftTwice(level) ==
    [k \in 0..(((Len0(level) - 1) + 1) \div 2 - 1) |-> RAdd(level[2 * k], level[2 * k])]

\* One pass of the summing loop: range(0, len - 1, 2) pairs adjacent elements.
SumAdjacent(level) ==
    [k \in 0..(((Len0(level) - 1) + 1) \div 2 - 1) |-> RAdd(level[2 * k], level[2 * k + 1])]

RECURSIVE BuildUp(_)
BuildUp(t) ==
    IF Len0(t[Len0(t) - 1]) > 1
    THEN BuildUp(Append0(t, SumAdjacent(t[Len0(t) - 1])))
    ELSE t

\* BinaryTree.__init__ on a list of reals: the raised exception, or the fields.
BinaryTreeInit(vec) ==
    LET nvals == Len0(vec)
        signs == [i \in DOMAIN vec |-> R(RSign(vec[i]))]
        squares == [i \in DOMAIN vec |-> RMul(RAbs(vec[i]), RAbs(vec[i]))]
        upside == BuildUp(Append0(Append0(EmptyList, signs), squares))
    IN  IF NotPowerOfTwoTest(nvals)
        THEN [exc |-> "ValueError", nvals |-> nvals]
        ELSE [exc |-> "none", nvals |-> nvals, values |-> vec, tree |-> Reversed(upside)]

Fields(o) == [nvals |-> o.nvals, values |-> o.values, tree |-> o.tree]

data(t) == t.tree

root(t) == t.tree[0][0]

number_leaves(t) == t.nvals

number_levels(t) == CeilLog2(t.nvals) + 1

\* A list subscript: the element, or IndexError.
Subscript(l, i) ==
    IF ValidIndex(l, i) THEN [exc |-> "none", val |-> l[PyIndex(l, i)]]
    ELSE [exc |-> "IndexError", val |-> None]

Subscript2(l, i, j) ==
    IF ValidIndex(l, i) THEN Subscript(l[PyIndex(l, i)], j)
    ELSE [exc |-> "IndexError", val |-> None]

Returns(v) == [exc |-> "none", val |-> v]

\* The tuple (level, index) that the index accessors return.
At(level, index) == [level |-> level, index |-> index]

get_leaf(t, index) == Subscript(t.values, index)

get_level(t, level) == Subscript(t.tree, level)

get_element(t, level, index) == Subscript2(t.tree, level, index)

\* parent_index without halving the index.
parent_index_SameIndex(t, level, index) ==
    IF level = 0 \/ level > CeilLog2(t.nvals) + 1 THEN Returns(None)
    ELSE Returns(At(level - 1, index))

parent_index(t, level, index) ==
    IF level = 0 \/ level > number_levels(t) THEN Returns(None)
    ELSE Returns(At(level - 1, index \div 2))

parent_value(t, level, index) ==
    IF level = 0 THEN Returns(None)
    ELSE LET p == parent_index(t, level, index).val
         IN  IF p = None THEN [exc |-> "TypeError", val |-> None]
             ELSE Subscript2(t.tree, p.level, p.index)

left_child_index(t, level, index) ==
    IF level = number_levels(t) - 1 THEN Returns(None)
    ELSE Returns(At(level + 1, 2 * index))

right_child_index(t, level, index) ==
    IF level = number_levels(t) - 1 THEN Returns(None)
    ELSE Returns(At(level + 1, 2 * index + 1))

left_child_value(t, level, index) ==
    IF level = number_levels(t) - 1 THEN Returns(None)
    ELSE LET c == left_child_index(t, level, index).val
         IN  Subscript2(t.tree, c.level, c.index)

right_child_value(t, level, index) ==
    IF level = number_levels(t) - 1 THEN Returns(None)
    ELSE LET c == right_child_index(t, level, index).val
         IN  Subscript2(t.tree, c.level, c.index)

\* update_entry that writes the leaf and does not run __init__ again.
update_entry_NoRebuild(t, index, value) ==
    IF ~ValidIndex(t.values, index)
    THEN [exc |-> "IndexError", self |-> t]
    ELSE [exc |-> "none",
          self |-> [t EXCEPT !.values[PyIndex(t.values, index)] = value]]

\* update_entry that raises IndexError with the levels above the leaves dropped.
update_entry_DropsLevelsOnError(t, index, value) ==
    IF ~ValidIndex(t.values, index)
    THEN [exc |-> "IndexError",
          self |-> [t EXCEPT !.tree = [l \in {0} |-> t.tree[Len0(t.tree) - 1]]]]
    ELSE LET newvals == [t.values EXCEPT ![PyIndex(t.values, index)] = value]
         IN  [exc |-> "none", self |-> Fields(BinaryTreeInit(newvals))]

\* update_entry: the item assignment raises IndexError before anything is
\* changed; otherwise __init__ runs again on the changed leaf list.
update_entry(t, index, value) ==
    IF ~ValidIndex(t.values, index)
    THEN [exc |-> "IndexError", self |-> t]
    ELSE LET newvals == [t.values EXCEPT ![PyIndex(t.values, index)] = value]
         IN  [exc |-> "none", self |-> Fields(BinaryTreeInit(newvals))]

\* ---------------------------------------------------------------- circuits

\* Qubits of the registers a preparation circuit is built on.
Reg(k) == <<"reg", k>>

Ctrl(k) == <<"ctrl", k>>

\* Instructions appended to the circuit.  theta is None for the bit flips.
\* ancilla says whether the ancilla register was handed to the gate.
Gate(g, theta, controls, target, anc) ==
    [gate |-> g, theta |-> theta, controls |-> controls, target |-> target, ancilla |-> anc]

XGate(q) == Gate("x", None, <<>>, q, FALSE)

\* Binary digits of n >= 0, most significant first, without leading zeros ("" for 0).
RECURSIVE Bin(_)
Bin(n) == IF n = 0 THEN <<>> ELSE Append(Bin(n \div 2), IF n % 2 = 1 THEN "1" ELSE "0")

Repeat(c, n) == [i \in 1..n |-> c]

\* binary_repr with the least significant bit first.
binary_repr_LsbFirst(num, width) ==
    IF num < 0 THEN Repeat("1", width)
    ELSE LET w == MaxOf(Len(Bin(num)), width)
         IN  [i \in 1..w |-> IF (num \div Pow2(i - 1)) % 2 = 1 THEN "1" ELSE "0"]

\* numpy.binary_repr(num, width) with a width given, as a sequence of characters.
binary_repr(num, width) ==
    IF num = 0 THEN Repeat("0", IF width = 0 THEN 1 ELSE width)
    ELSE IF num > 0
    THEN LET binary == Bin(num)
         IN  Repeat("0", MaxOf(Len(binary), width) - Len(binary)) \o binary
    ELSE LET pw == Len(Bin(0 - num))
             poswidth == IF Pow2(pw - 1) = 0 - num THEN pw - 1 ELSE pw
             binary == Bin(Pow2(poswidth + 1) + num)
         IN  Repeat("1", MaxOf(Len(binary), width) - Len(binary)) \o binary

\* A rotation angle 2*fn(sqrt(num/den)) + shift*pi, fn one of arccos, arcsin.
Angle(fn, num, den, shift) == [fn |-> fn, num |-> num, den |-> den, shift |-> shift]

\* The test for a zero node that never holds.
IsCloseToZero_Never(x) == FALSE

\* np.isclose(x, 0.0) on the model's numbers (integers plus integer multiples of
\* one square root): only zero is within 1e-8 of zero.
IsCloseToZero(x) == RSign(x) = 0

\* Subsequence of s at the positions where bits carries the given bit, in order.
RECURSIVE SelectIdx(_, _, _, _)
SelectIdx(s, bits, bit, i) ==
    IF i > Len(s) THEN <<>>
    ELSE (IF bits[i] = bit THEN <<s[i]>> ELSE <<>>) \o SelectIdx(s, bits, bit, i + 1)

\* The X gates put on the "1" positions of the bitstring.
AntiControlFlips_OnOnes(bitstring, ctrlq) ==
    LET flips == [ii \in 1..Len(bitstring) |->
                    IF ctrlq /= <<>> THEN Gate("mct", None, ctrlq, Reg(ii - 1), FALSE)
                    ELSE XGate(Reg(ii - 1))]
    IN  SelectIdx(flips, bitstring, "1", 1)

\* The X gates that turn the "0" positions of a node's bitstring into
\* anti-controls; each is controlled on the control register when there is one.
AntiControlFlips(bitstring, ctrlq) ==
    LET flips == [ii \in 1..Len(bitstring) |->
                    IF ctrlq /= <<>> THEN Gate("mct", None, ctrlq, Reg(ii - 1), FALSE)
                    ELSE XGate(Reg(ii - 1))]
    IN  SelectIdx(flips, bitstring, "0", 1)

\* The angle without the sign cases of the last level.
NodeAngle_NoSignCases(t, level, index) ==
    [theta |-> Angle("arccos", left_child_value(t, level, index).val, t.tree[level][index], 0),
     mct_flag |-> FALSE]

\* The angle of the rotation of node (level, index) and the flag for the extra
\* bit flip, for a node whose value is not close to zero.
NodeAngle(t, level, index) ==
    LET parent == t.tree[level][index]
        left_child == left_child_value(t, level, index).val
        plain == [theta |-> Angle("arccos", left_child, parent, 0), mct_flag |-> FALSE]
    IN  IF level = number_levels(t) - 2
        THEN LET l == RSign(t.values[2 * index])
                 r == RSign(t.values[2 * index + 1])
             IN  IF l < 0 /\ r > 0
                 THEN [theta |-> Angle("arcsin", left_child, parent, 1), mct_flag |-> FALSE]
                 ELSE IF l > 0 /\ r < 0
                 THEN [theta |-> Angle("arcsin", left_child, parent, 0 - 1), mct_flag |-> FALSE]
                 ELSE IF l < 0 /\ r < 0
                 THEN [theta |-> Angle("arccos", left_child, parent, 1), mct_flag |-> TRUE]
                 ELSE plain
        ELSE plain

\* The body of the two loops for one node: nothing for a node close to zero,
\* else anti-control flips, optional bit flip of the target, rotation, flips again.
NodeGates(t, level, index, nreg, ctrlq) ==
    IF IsCloseToZero(t.tree[level][index]) THEN <<>>
    ELSE LET a == NodeAngle(t, level, index)
             bitstring == binary_repr(index, level)
             flips == IF level > 0 THEN AntiControlFlips(bitstring, ctrlq) ELSE <<>>
             all_control_qubits ==
                 IF level = 0 THEN ctrlq ELSE ctrlq \o [k \in 1..level |-> Reg(k - 1)]
             anc == nreg > 3
             flip == IF ~a.mct_flag THEN <<>>
                     ELSE IF Len(all_control_qubits) > 0
                     THEN <<Gate("mct", None, all_control_qubits, Reg(level), anc)>>
                     ELSE <<XGate(Reg(level))>>
             rot == IF Len(all_control_qubits) > 0
                    THEN <<Gate("mcry", a.theta, all_control_qubits, Reg(level), anc)>>
                    ELSE <<Gate("ry", a.theta, <<>>, Reg(level), FALSE)>>
         IN  flips \o flip \o rot \o flips

\* The two loops with each node's gates put in front of the gates emitted so far.
RECURSIVE LoopGates_LastNodeFirst(_, _, _, _, _)
LoopGates_LastNodeFirst(t, level, index, nreg, ctrlq) ==
    IF level >= number_levels(t) - 1 THEN <<>>
    ELSE IF index >= Len0(t.tree[level]) THEN LoopGates_LastNodeFirst(t, level + 1, 0, nreg, ctrlq)
    ELSE LoopGates_LastNodeFirst(t, level, index + 1, nreg, ctrlq) \o NodeGates(t, level, index, nreg, ctrlq)

\* for level in range(0, number_levels - 1): for index in range(len(tree[level])).
RECURSIVE LoopGates(_, _, _, _, _)
LoopGates(t, level, index, nreg, ctrlq) ==
    IF level >= number_levels(t) - 1 THEN <<>>
    ELSE IF index >= Len0(t.tree[level]) THEN LoopGates(t, level + 1, 0, nreg, ctrlq)
    ELSE NodeGates(t, level, index, nreg, ctrlq) \o LoopGates(t, level, index + 1, nreg, ctrlq)

\* The pattern with an X for every character of the key that is not "1".
KeyFlips_OnZeros(control_key) ==
    SelectIdx([ii \in 1..Len(control_key) |->
                  IF control_key[ii] = "1" THEN "1" ELSE XGate(Ctrl(ii - 1))],
              [ii \in 1..Len(control_key) |-> IF control_key[ii] = "1" THEN "1" ELSE "0"], "0", 1)

\* The pattern of X gates on the control register: one for every "1" of the key.
KeyFlips(control_key) ==
    SelectIdx([ii \in 1..Len(control_key) |-> XGate(Ctrl(ii - 1))],
              control_key, "1", 1)

IntKey(k) == [type |-> "int", int |-> k]

StrKey(s) == [type |-> "str", str |-> s]

Register(n) == [len |-> n]

\* The integer key's range test as written: 0 > control_key > max_control_key,
\* a chained comparison, 0 > control_key and control_key > max_control_key.
KeyRangeTest(control_key, max_control_key) == 0 > control_key /\ control_key > max_control_key

\* The capacity test comparing with <= instead of <.
CapacityTest_RejectsExactFit(t, nreg) == Pow2(nreg) <= t.nvals

\* int(2**len(register)) < self._nvals
CapacityTest(t, nreg) == Pow2(nreg) < t.nvals

\* The test for a key without a register that never fires.
KeyWithoutRegisterTest_Never(control_register, control_key) == FALSE

\* control_register is not None and control_key is None
RegisterWithoutKeyTest(control_register, control_key) ==
    control_register /= None /\ control_key = None

\* control_key is not None and control_register is None
KeyWithoutRegisterTest(control_register, control_key) ==
    control_key /= None /\ control_register = None

\* preparation_circuit(register, control_register, control_key).  nreg is
\* len(register); control_register is None or Register(n); control_key is None,
\* IntKey(k) or StrKey(characters).  The raised exception, or the circuit.
preparation_circuit(t, nreg, control_register, control_key) ==
    LET nctrl == IF control_register = None THEN 0 ELSE control_register.len
        raise == [exc |-> "ValueError", val |-> None]
        max_control_key == Pow2(nctrl)
        keystring == IF control_key = None \/ control_register = None THEN <<>>
                     ELSE IF control_key.type = "int" THEN binary_repr(control_key.int, nctrl)
                     ELSE control_key.str
        ctrlq == [k \in 1..nctrl |-> Ctrl(k - 1)]
        nanc == IF nreg > 3 THEN MaxOf(nreg - 3, 3) ELSE 0
        keyflips == IF ctrlq /= <<>> THEN KeyFlips(keystring) ELSE <<>>
    IN  IF CapacityTest(t, nreg) THEN raise
        ELSE IF RegisterWithoutKeyTest(control_register, control_key) THEN raise
        ELSE IF KeyWithoutRegisterTest(control_register, control_key) THEN raise
        ELSE IF control_key /= None /\ control_key.type = "int"
                /\ KeyRangeTest(control_key.int, max_control_key) THEN raise
        ELSE IF control_key /= None /\ Len(keystring) /= nctrl THEN raise
        ELSE Returns([nreg |-> nreg, nctrl |-> nctrl,
                      nanc |-> nanc,
                      gates |-> keyflips \o LoopGates(t, 0, 0, nreg, ctrlq) \o keyflips])

\* ---------------------------------------------------------------- gate semantics

\* An amplitude s*sqrt(n/d): s is the sign (0 for the amplitude zero), n >= 0
\* and d > 0 are reals.  Products of such numbers are again of this form.
Amp(s, n, d) == [s |-> s, n |-> n, d |-> d]

AZero == Amp(0, R(0), R(1))

AOne == Amp(1, R(1), R(1))

\* A sum of two non-zero amplitudes that is not of the form s*sqrt(n/d).
AOther == Amp(2, R(0), R(1))

\* +sqrt(num/den) for num >= 0, den > 0.
ARoot(num, den) == IF RSign(num) = 0 THEN AZero ELSE Amp(1, num, den)

ANeg(x) == Amp(0 - x.s, x.n, x.d)

AMul(x, y) ==
    IF x.s = 0 \/ y.s = 0 THEN AZero
    ELSE IF x.s = 2 \/ y.s = 2 THEN AOther
    ELSE Amp(x.s * y.s, RMul(x.n, y.n), RMul(x.d, y.d))

AEq(x, y) == x.s = y.s /\ (x.s = 0 \/ RMul(x.n, y.d) = RMul(y.n, x.d))

\* The sum is exact when a summand is zero, when the two cancel and when they
\* are equal; no other sum arises when every rotation acts on a basis state of
\* its target qubit.
AAdd(x, y) ==
    IF x.s = 0 THEN y
    ELSE IF y.s = 0 THEN x
    ELSE IF x.s = 2 \/ y.s = 2 THEN AOther
    ELSE IF AEq(x, ANeg(y)) THEN AZero
    ELSE IF AEq(x, y) THEN Amp(x.s, RMul(R(4), x.n), x.d)
    ELSE AOther

\* cos(theta/2) and sin(theta/2).  With x = sqrt(num/den) in [0,1] and
\* y = sqrt(1 - x^2): arccos(x) has (cos, sin) = (x, y), arcsin(x) has (y, x);
\* adding pi to theta turns (c, s) into (-s, c), subtracting pi into (s, -c).
HalfAngle(theta) ==
    LET x == ARoot(theta.num, theta.den)
        y == ARoot(RAdd(theta.den, RNeg(theta.num)), theta.den)
        c == IF theta.fn = "arccos" THEN x ELSE y
        s == IF theta.fn = "arccos" THEN y ELSE x
    IN  IF theta.shift = 1 THEN [cos |-> ANeg(s), sin |-> c]
        ELSE IF theta.shift = 0 - 1 THEN [cos |-> s, sin |-> ANeg(c)]
        ELSE [cos |-> c, sin |-> s]

\* A register state: the non-zero amplitudes, by basis state (qubit -> 0/1).
Qubits(nreg, nctrl) == {Reg(k) : k \in 0..(nreg - 1)} \cup {Ctrl(k) : k \in 0..(nctrl - 1)}

BasisState(Q, ones) == [q \in Q |-> IF q \in ones THEN 1 ELSE 0]

Ket(b) == [x \in {b} |-> AOne]

AmpAt(st, b) == IF b \in DOMAIN st THEN st[b] ELSE AZero

Flip(b, q) == [b EXCEPT ![q] = 1 - b[q]]

On(b, controls) == \A i \in 1..Len(controls) : b[controls[i]] = 1

\* x and mct: flip the target where all controls are 1.
ApplyFlip(st, g) ==
    LET pre(b) == IF On(b, g.controls) THEN Flip(b, g.target) ELSE b
    IN  [b \in {pre(x) : x \in DOMAIN st} |-> st[pre(b)]]

\* ry and mcry: Ry(theta) = [[cos, -sin], [sin, cos]] on the target where all
\* controls are 1.
ApplyRy(st, g) ==
    LET h == HalfAngle(g.theta)
        t == g.target
        cand == DOMAIN st \cup {Flip(b, t) : b \in {x \in DOMAIN st : On(x, g.controls)}}
        new(b) ==
            IF ~On(b, g.controls) THEN AmpAt(st, b)
            ELSE LET a0 == AmpAt(st, [b EXCEPT ![t] = 0])
                     a1 == AmpAt(st, [b EXCEPT ![t] = 1])
                 IN  IF b[t] = 0 THEN AAdd(AMul(h.cos, a0), ANeg(AMul(h.sin, a1)))
                     ELSE AAdd(AMul(h.sin, a0), AMul(h.cos, a1))
    IN  [b \in {x \in cand : new(x).s /= 0} |-> new(b)]

ApplyGate(st, g) == IF g.gate \in {"x", "mct"} THEN ApplyFlip(st, g) ELSE ApplyRy(st, g)

RECURSIVE RunFrom(_, _, _)
RunFrom(gates, i, st) ==
    IF i > Len(gates) THEN st ELSE RunFrom(gates, i + 1, ApplyGate(st, gates[i]))

\* The state the circuit's gates produce from the all-zero state.
FinalState(circ) == RunFrom(circ.gates, 1, Ket(BasisState(Qubits(circ.nreg, circ.nctrl), {})))

\* ---------------------------------------------------------------- QSVE

\* matrix.shape of a two-dimensional array.  The only array without rows that
\* is modelled is the one of shape (0, 0).
Shape(matrix) ==
    [nrows |-> Len0(matrix), ncols |-> IF Len0(matrix) = 0 THEN 0 ELSE Len0(matrix[0])]

\* QSVE.__init__: the raised exception and the fields assigned before it, or
\* the fields of the instance.  np.log2(0) is -inf, and int(-inf) raises
\* OverflowError after _matrix_nrows and _matrix_ncols have been assigned.
QSVEInit(matrix) ==
    LET nrows == Shape(matrix).nrows
        ncols == Shape(matrix).ncols
    IN  IF nrows /= ncols THEN [exc |-> "ValueError"]
        ELSE IF BitAnd(ncols, ncols - 1) /= 0 THEN [exc |-> "ValueError"]
        ELSE IF ncols = 0
        THEN [exc |-> "OverflowError", matrix_nrows |-> nrows, matrix_ncols |-> ncols]
        ELSE [exc |-> "none",
              matrix_nrows |-> nrows,
              matrix_ncols |-> ncols,
              num_qubits_for_row |-> CeilLog2(ncols),
              num_qubits_for_col |-> CeilLog2(nrows),
              matrix |-> matrix,
              trees |-> [i \in DOMAIN matrix |-> Fields(BinaryTreeInit(matrix[i]))],
              shifted |-> FALSE]

get_tree(q, index) == Subscript(q.trees, index)

RECURSIVE SumRootsFrom(_, _)
SumRootsFrom(trees, i) ==
    IF i >= Len0(trees) THEN R(0) ELSE RAdd(root(trees[i]), SumRootsFrom(trees, i + 1))

\* matrix_norm leaving out the root of the first row tree.
matrix_norm_SkipsFirstRow(q) == RSqrt(SumRootsFrom(q.trees, 1))

\* matrix_norm returning the sum of the roots, without the square root.
matrix_norm_NoSqrt(q) == SumRootsFrom(q.trees, 0)

\* value = 0.0; for tree in self._trees: value += tree.root; return np.sqrt(value)
matrix_norm(q) == RSqrt(SumRootsFrom(q.trees, 0))

\* The loop of shift_matrix handing the old diagonal value to update_entry.
RECURSIVE ShiftFrom_TreeGetsOldValue(_, _, _)
ShiftFrom_TreeGetsOldValue(q, diag, norm) ==
    IF diag >= Len0(q.trees) THEN q
    ELSE LET value == q.matrix[diag][diag]
             tree == update_entry(q.trees[diag], diag, value).self
         IN  ShiftFrom_TreeGetsOldValue([q EXCEPT !.matrix[diag][diag] = RAdd(value, norm),
                                                  !.trees[diag] = tree],
                                        diag + 1, norm)

\* The loop of shift_matrix from row diag on, with the norm computed before it.
RECURSIVE ShiftFrom(_, _, _)
ShiftFrom(q, diag, norm) ==
    IF diag >= Len0(q.trees) THEN q
    ELSE LET value == q.matrix[diag][diag]
             tree == update_entry(q.trees[diag], diag, RAdd(value, norm)).self
         IN  ShiftFrom([q EXCEPT !.matrix[diag][diag] = RAdd(value, norm),
                                 !.trees[diag] = tree],
                       diag + 1, norm)

\* shift_matrix that never sets the shifted flag.
shift_matrix_FlagNotSet(q) ==
    IF q.shifted THEN q
    ELSE ShiftFrom(q, 0, RSqrt(SumRootsFrom(q.trees, 0)))

shift_matrix(q) ==
    IF q.shifted THEN q
    ELSE [ShiftFrom(q, 0, matrix_norm(q)) EXCEPT !.shifted = TRUE]

RECURSIVE NormSqFrom(_, _)
NormSqFrom(row, j) ==
    IF j >= Len0(row) THEN R(0) ELSE RAdd(RMul(row[j], row[j]), NormSqFrom(row, j + 1))

\* The two-norm of a matrix row.
two_norm(row) == RSqrt(NormSqFrom(row, 0))

\* The row-norm tree: a BinaryTree over the vector of per-row two-norms of the
\* stored matrix.  The leaves are non-negative square roots, and the square
\* the constructor takes of a square root is its radicand.
row_norm_tree(q) ==
    LET two_norms == [i \in DOMAIN q.matrix |-> two_norm(q.matrix[i])]
        signs == [i \in DOMAIN two_norms |-> R(RSign(RSquare(two_norms[i])))]
        squares == [i \in DOMAIN two_norms |-> RSquare(two_norms[i])]
        upside == BuildUp(Append0(Append0(EmptyList, signs), squares))
    IN  [nvals |-> Len0(two_norms), values |-> two_norms, tree |-> Reversed(upside)]

\* A measured fraction num/den, den a power of two, in lowest terms.
RECURSIVE Frac(_, _)
Frac(num, den) ==
    IF den > 1 /\ num % 2 = 0 THEN Frac(num \div 2, den \div 2) ELSE [num |-> num, den |-> den]

FracAdd(x, y) == Frac(x.num * y.den + y.num * x.den, x.den * y.den)

FracLeq(x, y) == x.num * y.den <= y.num * x.den

\* The sum of bit_k * 2^-(k+1) over the bits from position k on (positions from 1).
RECURSIVE BitsSumFrom(_, _)
BitsSumFrom(bits, k) ==
    IF k > Len(bits) THEN Frac(0, 1)
    ELSE FracAdd(IF bits[k] = "1" THEN Frac(1, Pow2(k)) ELSE Frac(0, 1), BitsSumFrom(bits, k + 1))

\* binaryFractionToFloat: the n-bit string as a binary fraction, the first
\* character being the most significant bit when big_endian, the last otherwise.
binary_decimal_to_float(binary_decimal, big_endian) ==
    LET n == Len(binary_decimal)
    IN  BitsSumFrom(IF big_endian THEN binary_decimal
                    ELSE [k \in 1..n |-> binary_decimal[n + 1 - k]], 1)

\* The phase conversion keeping the fraction only below one half.
convert_measured_StrictHalf(theta) ==
    IF ~FracLeq(Frac(1, 2), theta) THEN theta ELSE FracAdd(theta, Frac(0 - 1, 1))

\* convertMeasuredPhase: fraction if fraction <= 1/2, else fraction - 1.
convert_measured(theta) ==
    IF FracLeq(theta, Frac(1, 2)) THEN theta ELSE FracAdd(theta, Frac(0 - 1, 1))

\* The row isometry: a dense matrix of shape (dimension^2, dimension) whose
\* column i is e_i (x) row_i / ||row_i||, each entry sign * sqrt(leaf / root)
\* read from row tree i.  Row i * dimension + j of the result pairs i with j.
row_isometry(q) ==
    LET n == q.matrix_nrows
    IN  [k \in 0..(n * n - 1) |-> [c \in 0..(n - 1) |->
            LET i == k \div n
                j == k % n
                t == q.trees[i]
                sign == t.tree[Len0(t.tree) - 1][j]
                leaf == t.tree[Len0(t.tree) - 2][j]
            IN  IF i /= c THEN AZero
                ELSE IF RSign(sign) < 0 THEN ANeg(ARoot(leaf, root(t)))
                ELSE ARoot(leaf, root(t))]]

\* The norm isometry: column j is (row norms / ||matrix||_F) (x) e_j, each
\* entry sqrt(leaf / root) read from the row-norm tree.
norm_isometry(q) ==
    LET n == q.matrix_nrows
        t == row_norm_tree(q)
    IN  [k \in 0..(n * n - 1) |-> [c \in 0..(n - 1) |->
            LET i == k \div n
                j == k % n
            IN  IF j /= c THEN AZero
                ELSE ARoot(t.tree[Len0(t.tree) - 2][i], root(t))]]

\* A QuantumCircuit: the number of its quantum registers (len(circuit.qregs))
\* and its instruction sequence.
QuantumCircuit(nqregs, instructions) == [nqregs |-> nqregs, data |-> instructions]

\* A single qubit, as pkb_register may be.
Qubit == [qubit |-> TRUE]

\* build without the test of the number of qubits of row_register.
build_WithoutRowTest(q, circ, qpe_register, row_register, col_register, pkb_register) ==
    IF "nqregs" \notin DOMAIN circ THEN [exc |-> "ValueError", circuit |-> circ]
    ELSE IF circ.nqregs < 4 THEN [exc |-> "ValueError", circuit |-> circ]
    ELSE IF row_register.len /= col_register.len THEN [exc |-> "ValueError", circuit |-> circ]
    ELSE IF "len" \in DOMAIN pkb_register THEN [exc |-> "none", circuit |-> circ]
    ELSE IF pkb_register = Qubit THEN [exc |-> "AttributeError", circuit |-> circ]
    ELSE [exc |-> "ValueError", circuit |-> circ]

\* build(circuit, qpe_register, row_register, col_register, pkb_register): the
\* raised exception, if any, and the circuit after the call.  The method ends
\* after its argument checks and appends no instruction.  Inside build the name
\* circuit is the QuantumCircuit argument, which has no attribute
\* quantumregister, so the comparison of type(pkb_register) with
\* circuit.quantumregister.Qubit raises AttributeError once pkb_register is found
\* not to be a QuantumRegister.  qpe_register is never read.
build(q, circ, qpe_register, row_register, col_register, pkb_register) ==
    IF "nqregs" \notin DOMAIN circ THEN [exc |-> "ValueError", circuit |-> circ]
    ELSE IF circ.nqregs < 4 THEN [exc |-> "ValueError", circuit |-> circ]
    ELSE IF row_register.len /= col_register.len THEN [exc |-> "ValueError", circuit |-> circ]
    ELSE IF row_register.len /= q.num_qubits_for_row
    THEN [exc |-> "ValueError", circuit |-> circ]
    ELSE IF "len" \in DOMAIN pkb_register THEN [exc |-> "none", circuit |-> circ]
    ELSE IF pkb_register = Qubit THEN [exc |-> "AttributeError", circuit |-> circ]
    ELSE [exc |-> "ValueError", circuit |-> circ]

\* ---------------------------------------------------------------- the BinaryTree client

\* The caller makes one call at a time: ret is Idle between calls and holds the
\* call's outcome from the moment the call ends until the caller has taken it.
Idle == [op |-> "idle", args |-> None, exc |-> "none", val |-> None]

Call(op, args, out) == [op |-> op, args |-> args, exc |-> out.exc, val |-> out.val]

\* Return values that are not records are wrapped, so that any two are comparable.
IntVal(n) == [int |-> n]

ListVal(l) == [list |-> l]

Vectors == UNION {Lists(n, {R(v) : v \in Vals}) : n \in 0..MaxLen}

NoQSVE == [none |-> TRUE]

\* tree = BinaryTree(vector)
InitTree ==
    /\ \E vector \in Vectors :
       LET o == BinaryTreeInit(vector)
       IN  /\ built = (o.exc = "none")
           /\ self = IF o.exc = "none" THEN Fields(o) ELSE [nvals |-> o.nvals]
           /\ ret = Call("__init__", None, [exc |-> o.exc, val |-> None])
           /\ stored = IF o.exc = "none" THEN ListOf(deepcopy(Object("arg", vector))).id
                       ELSE "none"
    /\ qsve = NoQSVE
    /\ original = NoQSVE
    /\ shiftCalls = 0
    /\ circuit = None
    /\ treeUpdates = 0

\* The caller takes the outcome of the last call.
Return ==
    /\ ret /= Idle
    /\ ret' = Idle
    /\ UNCHANGED <<self, built, qsve, original, shiftCalls, circuit, treeUpdates, stored>>

Ready == built /\ ret = Idle

\* A call that sets every leaf of the tree to zero.
Query_ClearsLeaves(op, args, out) ==
    /\ built /\ ret = Idle
    /\ ret' = Call(op, args, out)
    /\ self' = [self EXCEPT !.values = [i \in DOMAIN self.values |-> R(0)]]
    /\ UNCHANGED <<built, qsve, original, shiftCalls, circuit, treeUpdates, stored>>

\* A call that does not assign to any field of the tree.
Query(op, args, out) ==
    /\ Ready
    /\ ret' = Call(op, args, out)
    /\ UNCHANGED <<self, built, qsve, original, shiftCalls, circuit, treeUpdates, stored>>

\* Arguments: every level index from 0 to one past the stored lists, every
\* element index from -1 to one past the leaves.
LevelArgs == 0..(number_levels(self) + 1)

IndexArgs == (0 - 1)..self.nvals

\* newvals = self._values names the stored list, so the item assignment is
\* seen by every name of that list; __init__ then stores a new list.
UpdateEntry ==
    \E index \in (0 - self.nvals - 1)..self.nvals, value \in Vals :
        /\ Ready
        /\ LET out == update_entry(self, index, R(value))
           IN  /\ self' = out.self
               /\ ret' = Call("update_entry", [index |-> index, value |-> R(value)],
                              [exc |-> out.exc, val |-> None])
               /\ original' = IF out.exc = "none" /\ stored = "arg" THEN out.self.values
                              ELSE original
               /\ stored' = IF out.exc = "none"
                            THEN ListOf(deepcopy(Object(stored, out.self.values))).id
                            ELSE stored
        /\ UNCHANGED <<built, qsve, shiftCalls, circuit, treeUpdates>>

Data == Query("data", None, Returns(ListVal(data(self))))

Root ==
    Query("root", None,
          IF self.nvals = 0 THEN [exc |-> "IndexError", val |-> None] ELSE Returns(root(self)))

NumberLeaves == Query("number_leaves", None, Returns(IntVal(number_leaves(self))))

\* log2(0) is -inf, and int(-inf) raises OverflowError.
NumberLevels ==
    Query("number_levels", None,
          IF self.nvals = 0 THEN [exc |-> "OverflowError", val |-> None]
          ELSE Returns(IntVal(number_levels(self))))

GetLeaf == \E index \in IndexArgs : Query("get_leaf", At(0, index), get_leaf(self, index))

GetLevel ==
    \E level \in LevelArgs :
        LET out == get_level(self, level)
        IN  Query("get_level", At(level, 0),
                  IF out.exc = "none" THEN Returns(ListVal(out.val)) ELSE out)

NodeArgs == {At(l, i) : l \in LevelArgs, i \in 0..(self.nvals - 1)}

GetElement ==
    \E n \in NodeArgs : self.nvals > 0 /\ Query("get_element", n, get_element(self, n.level, n.index))

ParentIndex ==
    \E n \in NodeArgs : self.nvals > 0 /\ Query("parent_index", n, parent_index(self, n.level, n.index))

ParentValue ==
    \E n \in NodeArgs : self.nvals > 0 /\ Query("parent_value", n, parent_value(self, n.level, n.index))

LeftChildIndex ==
    \E n \in NodeArgs :
        self.nvals > 0 /\ Query("left_child_index", n, left_child_index(self, n.level, n.index))

RightChildIndex ==
    \E n \in NodeArgs :
        self.nvals > 0 /\ Query("right_child_index", n, right_child_index(self, n.level, n.index))

LeftChildValue ==
    \E n \in NodeArgs :
        self.nvals > 0 /\ Query("left_child_value", n, left_child_value(self, n.level, n.index))

RightChildValue ==
    \E n \in NodeArgs :
        self.nvals > 0 /\ Query("right_child_value", n, right_child_value(self, n.level, n.index))

\* Registers of the target: one qubit too few, exactly enough, and up to MaxSpare more.
RegisterArgs == {n \in (CeilLog2(self.nvals) - 1)..(CeilLog2(self.nvals) + MaxSpare) : n >= 1}

ControlRegisterArgs == {None} \cup {Register(n) : n \in 1..MaxCtrl}

BinaryStrings(n) == [1..n -> {"0", "1"}]

\* Keys for an n-qubit control register: none, the integers from -2^n to 2^n, the
\* binary strings of length n, and strings of a wrong length or with another character.
ControlKeyArgs(n) ==
    {None}
    \cup {IntKey(k) : k \in (0 - Pow2(n))..Pow2(n)}
    \cup {StrKey(str) : str \in BinaryStrings(n)}
    \cup {StrKey(Repeat("1", n + 1)), StrKey(Repeat("1", n - 1)), StrKey(Repeat("x", n)),
          StrKey([i \in 1..n |-> IF i = 1 THEN "x" ELSE "1"])}

PreparationCircuit ==
    \E nreg \in RegisterArgs, control_register \in ControlRegisterArgs :
        \E control_key \in
                IF control_register = None THEN {None, IntKey(0)}
                ELSE ControlKeyArgs(control_register.len) :
            /\ self.nvals > 0
            /\ Query("preparation_circuit",
                     [nreg |-> nreg, control_register |-> control_register,
                      control_key |-> control_key],
                     preparation_circuit(self, nreg, control_register, control_key))

\* The calls that build, read and update the tree: every method of BinaryTree
\* except preparation_circuit.
NextTree ==
    \/ Return
    \/ UpdateEntry
    \/ Data
    \/ Root
    \/ NumberLeaves
    \/ NumberLevels
    \/ GetLeaf
    \/ GetLevel
    \/ GetElement
    \/ ParentIndex
    \/ ParentValue
    \/ LeftChildIndex
    \/ RightChildIndex
    \/ LeftChildValue
    \/ RightChildValue

\* preparation_circuit assigns to no field of the tree, so the trees that
\* SpecTree reaches are the trees that Spec reaches.
SpecTree == InitTree /\ [][NextTree]_vars

Next ==
    \/ NextTree
    \/ PreparationCircuit

Spec == InitTree /\ [][Next]_vars

\* ---------------------------------------------------------------- the QSVE client

\* Matrices of a shape the constructor accepts, with entries in Vals.  The
\* entries of a matrix of any other shape are never read: one matrix per shape.
Accepted(nrows, ncols) == nrows = ncols /\ BitAnd(ncols, ncols - 1) = 0 /\ ncols /= 0

Matrices ==
    {EmptyList}
    \cup UNION {IF Accepted(nrows, ncols)
                THEN Lists(nrows, Lists(ncols, {R(v) : v \in Vals}))
                ELSE {[i \in 0..(nrows - 1) |-> [j \in 0..(ncols - 1) |-> R(0)]]} :
                nrows \in 1..MaxDim, ncols \in 1..MaxDim}

\* The circuits of the caller: MaxRegs - 1 or MaxRegs quantum registers, no
\* instruction yet or one.
Circuits ==
    {QuantumCircuit(n, instructions) :
        n \in (MaxRegs - 1)..MaxRegs, instructions \in {<<>>, <<XGate(Reg(0))>>}}

\* qsve = QSVE(matrix), the caller holding a circuit
InitQSVE ==
    /\ \E matrix \in Matrices :
       LET o == QSVEInit(matrix)
       IN  /\ original = matrix
           /\ stored = IF o.exc = "none" THEN deepcopy(Object("arg", matrix)).id ELSE "none"
           /\ qsve = IF o.exc = "none" THEN [f \in DOMAIN o \ {"exc"} |-> o[f]] ELSE NoQSVE
           /\ ret = Call("QSVE.__init__", None,
                          [exc |-> o.exc,
                           val |-> IF o.exc = "none" THEN None
                                   ELSE [assigned |-> DOMAIN o \ {"exc"}]])
    /\ shiftCalls = 0
    /\ circuit \in Circuits
    /\ treeUpdates = 0
    /\ self = NoQSVE
    /\ built = FALSE

QReady == qsve /= NoQSVE /\ ret = Idle

QQuery(op, args, out) ==
    /\ QReady
    /\ ret' = Call(op, args, out)
    /\ UNCHANGED <<self, built, qsve, original, shiftCalls, circuit, treeUpdates, stored>>

QReturn ==
    /\ ret /= Idle
    /\ ret' = Idle
    /\ UNCHANGED <<self, built, qsve, original, shiftCalls, circuit, treeUpdates, stored>>

Matrix == QQuery("matrix", None, Returns(ListVal(qsve.matrix)))

MatrixNrows == QQuery("matrix_nrows", None, Returns(IntVal(qsve.matrix_nrows)))

MatrixNcols == QQuery("matrix_ncols", None, Returns(IntVal(qsve.matrix_ncols)))

GetTree ==
    /\ QReady
    /\ \E index \in (0 - 1)..qsve.matrix_nrows :
           QQuery("get_tree", At(0, index), get_tree(qsve, index))

MatrixNorm == QQuery("matrix_norm", None, Returns(matrix_norm(qsve)))

ShiftMatrix ==
    /\ QReady
    /\ shiftCalls < MaxShiftCalls
    /\ qsve' = shift_matrix(qsve)
    /\ shiftCalls' = shiftCalls + 1
    /\ ret' = Call("shift_matrix", None, Returns(None))
    /\ original' = IF stored = "arg" THEN qsve'.matrix ELSE original
    /\ UNCHANGED <<self, built, circuit, treeUpdates, stored>>

\* The phase kickback argument: a register, a single qubit, or neither.
PkbArgs == {Register(n) : n \in 1..MaxQubits} \cup {Qubit, None}

\* qsve.build(circuit, qpe_register, row_register, col_register, pkb_register),
\* the first argument being the caller's circuit or not a circuit at all.
Build ==
    /\ QReady
    /\ \E circ \in {circuit, None}, nrow \in 1..MaxQubits, ncol \in 1..MaxQubits,
          pkb_register \in PkbArgs :
           LET out == build(qsve, circ, Register(1), Register(nrow), Register(ncol),
                            pkb_register)
           IN  /\ circuit' = IF circ = circuit THEN out.circuit ELSE circuit
               /\ ret' = Call("build",
                              [circuit |-> circ, row_register |-> Register(nrow),
                               col_register |-> Register(ncol),
                               pkb_register |-> pkb_register],
                              [exc |-> out.exc, val |-> None])
    /\ UNCHANGED <<self, built, qsve, original, shiftCalls, treeUpdates, stored>>

NextQSVE ==
    \/ QReturn
    \/ Matrix
    \/ MatrixNrows
    \/ MatrixNcols
    \/ GetTree
    \/ MatrixNorm
    \/ ShiftMatrix
    \/ Build

SpecQSVE == InitQSVE /\ [][NextQSVE]_vars

\* tree = qsve.get_tree(row); tree.update_entry(index, value): get_tree returns
\* the tree object that the instance holds, so the update acts on qsve._trees[row].
TreeUpdateEntry ==
    /\ QReady
    /\ treeUpdates < MaxTreeUpdates
    /\ \E row \in DOMAIN qsve.trees, value \in Vals :
       \E index \in (0 - 1)..qsve.trees[row].nvals :
           LET out == update_entry(qsve.trees[row], index, R(value))
           IN  /\ qsve' = [qsve EXCEPT !.trees[row] = out.self]
               /\ ret' = Call("get_tree.update_entry",
                              [row |-> row, index |-> index, value |-> R(value)],
                              [exc |-> out.exc, val |-> None])
    /\ treeUpdates' = treeUpdates + 1
    /\ UNCHANGED <<self, built, original, shiftCalls, circuit, stored>>

\* The caller of QSVE who also uses the trees that get_tree hands out.
NextCaller ==
    \/ QReturn
    \/ GetTree
    \/ MatrixNorm
    \/ ShiftMatrix
    \/ TreeUpdateEntry

\* The caller's circuit plays no part here: one circuit.
InitCaller == InitQSVE /\ circuit = QuantumCircuit(MaxRegs, <<>>)

SpecCaller == InitCaller /\ [][NextCaller]_vars

RowNormTree == QQuery("row_norm_tree", None, Returns(row_norm_tree(qsve)))

\* The engine's norms: the Frobenius norm, the diagonal shift and the row-norm tree.
NextNorms ==
    \/ QReturn
    \/ MatrixNorm
    \/ ShiftMatrix
    \/ RowNormTree

SpecNorms == InitCaller /\ [][NextNorms]_vars

\* The bit strings a precision register of 1..MaxBits qubits can give.
MeasuredStrings == UNION {BinaryStrings(n) : n \in 1..MaxBits}

BinaryDecimalToFloat ==
    \E bits \in MeasuredStrings, big_endian \in BOOLEAN :
        QQuery("binary_decimal_to_float", [bits |-> bits, big_endian |-> big_endian],
               Returns(binary_decimal_to_float(bits, big_endian)))

\* theta = binary_decimal_to_float(bits, big_endian); convert_measured(theta)
ConvertMeasured ==
    \E bits \in MeasuredStrings, big_endian \in BOOLEAN :
        LET theta == binary_decimal_to_float(bits, big_endian)
        IN  QQuery("convert_measured",
                   [bits |-> bits, big_endian |-> big_endian, theta |-> theta],
                   Returns(convert_measured(theta)))

\* Decoding of the measured bit strings.
NextPhase ==
    \/ QReturn
    \/ BinaryDecimalToFloat
    \/ ConvertMeasured

\* The decoding reads no field of the instance: one matrix.
InitPhase == InitCaller /\ original = [i \in 0..0 |-> [j \in 0..0 |-> R(1)]]

SpecPhase == InitPhase /\ [][NextPhase]_vars

\* The isometries divide by the row norms: they are built for matrices whose
\* rows are all nonzero.
NonzeroRows == \A i \in DOMAIN qsve.trees : RSign(root(qsve.trees[i])) /= 0

RowIsometry == QReady /\ NonzeroRows /\ QQuery("row_isometry", None, Returns(ListVal(row_isometry(qsve))))

NormIsometry == QReady /\ NonzeroRows /\ QQuery("norm_isometry", None, Returns(ListVal(norm_isometry(qsve))))

NextIsometry ==
    \/ QReturn
    \/ RowIsometry
    \/ NormIsometry

SpecIsometry == InitCaller /\ [][NextIsometry]_vars

\* tree = BinaryTree(vector), the caller keeping the vector it passed
InitOwnerTree ==
    /\ \E vector \in Vectors :
       LET o == BinaryTreeInit(vector)
       IN  /\ built = (o.exc = "none")
           /\ self = IF o.exc = "none" THEN Fields(o) ELSE [nvals |-> o.nvals]
           /\ ret = Call("__init__", None, [exc |-> o.exc, val |-> None])
           /\ stored = IF o.exc = "none" THEN ListOf(deepcopy(Object("arg", vector))).id
                       ELSE "none"
           /\ original = vector
    /\ qsve = NoQSVE
    /\ shiftCalls = 0
    /\ circuit = None
    /\ treeUpdates = 0

\* vector[index] = value, by the caller on the vector it passed
CallerWritesVector ==
    /\ Ready
    /\ \E index \in DOMAIN original, value \in Vals :
           /\ original' = [original EXCEPT ![index] = R(value)]
           /\ self' = IF stored = "arg" THEN [self EXCEPT !.values = original'] ELSE self
           /\ ret' = Call("vector[index] = value", [index |-> index, value |-> R(value)],
                          Returns(None))
    /\ UNCHANGED <<built, qsve, shiftCalls, circuit, treeUpdates, stored>>

\* matrix[row][col] = value, by the caller on the matrix it passed
CallerWritesMatrix ==
    /\ QReady
    /\ \E row \in DOMAIN original, value \in Vals :
       \E col \in DOMAIN original[row] :
           /\ original' = [original EXCEPT ![row][col] = R(value)]
           /\ qsve' = IF stored = "arg" THEN [qsve EXCEPT !.matrix = original'] ELSE qsve
           /\ ret' = Call("matrix[row][col] = value",
                          [row |-> row, col |-> col, value |-> R(value)], Returns(None))
    /\ UNCHANGED <<self, built, shiftCalls, circuit, treeUpdates, stored>>

\* The caller keeps the object it passed to the constructor and writes to it
\* between the calls that change the instance.
NextOwner ==
    \/ Return
    \/ built /\ UpdateEntry
    \/ ShiftMatrix
    \/ CallerWritesVector
    \/ CallerWritesMatrix

InitOwner == InitOwnerTree \/ InitCaller

SpecOwner == InitOwner /\ [][NextOwner]_vars

\* Both classes: a caller who builds a BinaryTree, or a QSVE with a circuit at
\* hand, and uses the methods of what was built.
NextBoth ==
    \/ circuit = None /\ Next
    \/ circuit /= None /\ NextQSVE

InitBoth == InitTree \/ InitQSVE

SpecBoth == InitBoth /\ [][NextBoth]_vars

\* ---------------------------------------------------------------- claims on preparation_circuit

\* The index j of the leaf a basis state stands for: register[k] carries the
\* k-th most significant of the m = log2(number of leaves) bits of j.
RECURSIVE LeafIndex(_, _, _)
LeafIndex(b, k, m) == IF k >= m THEN 0 ELSE b[Reg(k)] * Pow2(m - 1 - k) + LeafIndex(b, k + 1, m)

\* The amplitude of vector/||vector||_2 on basis state b: leaf j over the norm
\* when the control qubits and the qubits beyond the m-th are 0, else zero.
TargetAmp(t, b) ==
    LET m == CeilLog2(t.nvals)
        v == t.values[LeafIndex(b, 0, m)]
    IN  IF \E q \in DOMAIN b : b[q] = 1 /\ (q[1] = "ctrl" \/ q[2] >= m) THEN AZero
        ELSE IF RSign(v) = 0 THEN AZero
        ELSE Amp(RSign(v), RMul(v, v), root(t))

\* The circuit takes the all-zero state to the normalized vector of the tree.
PreparesVector(t, circ) ==
    LET st == FinalState(circ)
    IN  \A b \in [Qubits(circ.nreg, circ.nctrl) -> {0, 1}] :
            AEq(AmpAt(st, b), TargetAmp(t, b))

\* The circuit leaves the all-zero state as it is.
LeavesZero(circ) ==
    LET Q == Qubits(circ.nreg, circ.nctrl)
    IN  FinalState(circ) = Ket(BasisState(Q, {}))

Prepared == ret.op = "preparation_circuit" /\ ret.exc = "none"

\* Some pair of sibling leaves is (negative, zero) or (zero, negative).
NegativeBesideZero(t) ==
    \E i \in 0..(t.nvals \div 2 - 1) :
        LET l == RSign(t.values[2 * i])
            r == RSign(t.values[2 * i + 1])
        IN  (l < 0 /\ r = 0) \/ (l = 0 /\ r < 0)

\* C1: for every vector of power-of-two length >= 2 with nonzero norm, the
\* circuit built without a control register takes the all-zero register to
\* vector/||vector||_2, amplitude v[j]/||v|| on basis state j in magnitude and sign.
C1_PreparesNormalizedVector ==
    (Prepared /\ ret.args.control_register = None /\ self.nvals >= 2 /\ RSign(root(self)) /= 0)
        => PreparesVector(self, ret.val)

\* The valid keys of an n-qubit control register and the all-ones key among them.
ValidKey(key, n) ==
    IF key.type = "int" THEN 0 <= key.int /\ key.int < Pow2(n)
    ELSE Len(key.str) = n /\ \A i \in 1..n : key.str[i] \in {"0", "1"}

AllOnesKey(key, n) ==
    IF key.type = "int" THEN key.int = Pow2(n) - 1
    ELSE key.str = Repeat("1", n)

Controlled ==
    /\ Prepared
    /\ ret.args.control_register /= None
    /\ ValidKey(ret.args.control_key, ret.args.control_register.len)

\* C4: with an n-qubit control register in the all-zero state, the circuit
\* prepares the normalized vector on the target register if and only if the key
\* is the all-ones pattern; for every other key the target stays in the zero state.
C4_PreparesOnlyUnderAllOnesKey ==
    (Controlled /\ self.nvals >= 2 /\ RSign(root(self)) /= 0) =>
        IF AllOnesKey(ret.args.control_key, ret.args.control_register.len)
        THEN PreparesVector(self, ret.val)
        ELSE LeavesZero(ret.val)

\* What the circuits do instead: without a control register the vector is
\* prepared exactly when no negative leaf has a zero sibling, and under the
\* all-ones key likewise; under any other valid key the zero state is left.
UncontrolledPreparesUnlessNegativeBesideZero ==
    (Prepared /\ ret.args.control_register = None /\ self.nvals >= 2 /\ RSign(root(self)) /= 0)
        => (PreparesVector(self, ret.val) <=> ~NegativeBesideZero(self))

ControlledPreparesUnlessNegativeBesideZero ==
    (Controlled /\ self.nvals >= 2 /\ RSign(root(self)) /= 0) =>
        IF AllOnesKey(ret.args.control_key, ret.args.control_register.len)
        THEN PreparesVector(self, ret.val) <=> ~NegativeBesideZero(self)
        ELSE LeavesZero(ret.val)

\* ---------------------------------------------------------------- claims on the tree

IsPowerOfTwo(n) == \E k \in 0..n : Pow2(k) = n

RECURSIVE SumSquaresFrom(_, _)
SumSquaresFrom(l, i) ==
    IF i >= Len0(l) THEN R(0) ELSE RAdd(RMul(l[i], l[i]), SumSquaresFrom(l, i + 1))

\* Sum of the squares of the elements of a list.
SumSquares(l) == SumSquaresFrom(l, 0)

\* The nodes of a tree: levels 0..number_levels-1, 2^level nodes per level.
IsNode(t, n) ==
    /\ 0 <= n.level /\ n.level <= number_levels(t) - 1
    /\ 0 <= n.index /\ n.index < Pow2(n.level)

Nodes(t) ==
    {n \in {At(l, i) : l \in 0..(number_levels(t) - 1), i \in 0..(t.nvals - 1)} : IsNode(t, n)}

\* A tree built from a vector of power-of-two length (1, 2, 4, ...).
ProperTree == built /\ self.nvals >= 1

\* C2: after construction from a vector of power-of-two length and after any
\* sequence of update_entry calls, the root is the sum of the squares of the
\* current leaves and every node above the leaf level is the sum of its two
\* children: get_element(l,i) = left_child_value(l,i) + right_child_value(l,i).
C2_SumTree ==
    ProperTree =>
        /\ root(self) = SumSquares(self.values)
        /\ \A n \in Nodes(self) :
               left_child_value(self, n.level, n.index).val /= None =>
                   get_element(self, n.level, n.index).val =
                       RAdd(left_child_value(self, n.level, n.index).val,
                            right_child_value(self, n.level, n.index).val)

C2_Witness ==
    /\ ProperTree /\ self.nvals = 4
    /\ ret.op = "update_entry" /\ ret.exc = "none"
    /\ RSign(self.values[1]) < 0 /\ RSign(self.values[2]) > 0
    /\ self.tree[1][0] /= self.tree[1][1]

\* C3: construction raises ValueError for every vector whose length is not a
\* power of two (1, 2, 4, ...), and then produces no tree; it succeeds for every
\* vector whose length is a power of two.
C3_RaisesUnlessPowerOfTwo ==
    ret.op = "__init__" =>
        /\ (ret.exc = "ValueError") <=> ~IsPowerOfTwo(self.nvals)
        /\ built <=> IsPowerOfTwo(self.nvals)

\* C8: update_entry with a valid index sets that leaf to the value, leaves the
\* other leaves and number_leaves unchanged and rebuilds every level and the
\* signs, so that the tree equals one freshly built from the updated vector.
C8_UpdateEntryRebuilds ==
    [][(ret'.op = "update_entry" /\ ret'.exc = "none" /\ ret'.args.index >= 0) =>
          /\ self'.values[ret'.args.index] = ret'.args.value
          /\ \A i \in DOMAIN self.values :
                 i /= ret'.args.index => self'.values[i] = self.values[i]
          /\ DOMAIN self'.values = DOMAIN self.values
          /\ number_leaves(self') = number_leaves(self)
          /\ self' = Fields(BinaryTreeInit(self'.values))]_vars

C8_Witness ==
    /\ ret.op = "update_entry" /\ ret.exc = "none" /\ ret.args.index = 2
    /\ self.nvals = 4
    /\ RSign(ret.args.value) < 0
    /\ RSign(self.values[0]) > 0 /\ RSign(self.values[3]) > 0

\* C9: for every node (l,i): parent_index is (l-1, i div 2) and parent_value the
\* value stored there, both None for the root; left_child_index and
\* right_child_index are (l+1, 2i) and (l+1, 2i+1) and left_child_value and
\* right_child_value the values stored there, all four None at the leaf level.
C9_ParentAndChildAccessors ==
    (ProperTree /\ ret.args /= None /\ "level" \in DOMAIN ret.args /\ IsNode(self, ret.args)) =>
        LET l == ret.args.level
            i == ret.args.index
            isRoot == l = 0
            isLeaf == l = number_levels(self) - 1
        IN  /\ ret.op = "parent_index" =>
                   ret = Call(ret.op, ret.args,
                              Returns(IF isRoot THEN None ELSE At(l - 1, i \div 2)))
            /\ ret.op = "parent_value" =>
                   ret = Call(ret.op, ret.args,
                              Returns(IF isRoot THEN None ELSE self.tree[l - 1][i \div 2]))
            /\ ret.op = "left_child_index" =>
                   ret = Call(ret.op, ret.args,
                              Returns(IF isLeaf THEN None ELSE At(l + 1, 2 * i)))
            /\ ret.op = "right_child_index" =>
                   ret = Call(ret.op, ret.args,
                              Returns(IF isLeaf THEN None ELSE At(l + 1, 2 * i + 1)))
            /\ ret.op = "left_child_value" =>
                   ret = Call(ret.op, ret.args,
                              Returns(IF isLeaf THEN None ELSE self.tree[l + 1][2 * i]))
            /\ ret.op = "right_child_value" =>
                   ret = Call(ret.op, ret.args,
                              Returns(IF isLeaf THEN None ELSE self.tree[l + 1][2 * i + 1]))

C9_Witness ==
    /\ ProperTree /\ self.nvals = 4
    /\ ret.op = "parent_value" /\ ret.args = At(2, 3)
    /\ ret.val = self.tree[1][1] /\ ret.val /= self.tree[1][0]

\* The lists that data returns, and the one that get_level(level) returns.
StoredLists ==
    IF ret.op = "data" THEN ret.val.list ELSE self.tree

Squares(l) == [i \in DOMAIN l |-> RMul(l[i], l[i])]

\* C10 as stated: the stored lists are root-first, level 0 has one element, every
\* further stored list has twice as many elements as the one before it, the last
\* stored list holds the squared magnitudes of the leaves, and there are
\* number_levels = log2(number_leaves) + 1 stored lists.
C10_Original ==
    (ProperTree /\ ret.op \in {"data", "get_level"} /\ ret.exc = "none") =>
        LET d == StoredLists
        IN  /\ Len0(d[0]) = 1
            /\ \A l \in 1..(Len0(d) - 1) : Len0(d[l]) = 2 * Len0(d[l - 1])
            /\ d[Len0(d) - 1] = Squares(self.values)
            /\ Len0(d) = number_levels(self)
            /\ number_levels(self) = CeilLog2(number_leaves(self)) + 1
            /\ ret.op = "get_level" => ret.val.list = d[ret.args.level]

\* C10 amended: the stored lists are the levels, root first, followed by one
\* more list: the last stored list holds the signs of the leaves and the one
\* before it their squared magnitudes, and every list from the second to the
\* squared magnitudes has twice as many elements as the one before it.  When the
\* vector is not empty, list 0 has one element (the root) and there are
\* number_levels + 1 stored lists, with number_levels = log2(number_leaves) + 1.
C10_LevelsThenSigns ==
    (built /\ ret.op \in {"data", "get_level"} /\ ret.exc = "none") =>
        LET d == StoredLists
            n == Len0(d)
        IN  /\ n >= 2
            /\ d[n - 1] = [i \in DOMAIN self.values |-> R(RSign(self.values[i]))]
            /\ d[n - 2] = Squares(self.values)
            /\ \A l \in 1..(n - 2) : Len0(d[l]) = 2 * Len0(d[l - 1])
            /\ self.nvals >= 1 =>
                   /\ Len0(d[0]) = 1
                   /\ n = number_levels(self) + 1
                   /\ Pow2(number_levels(self) - 1) = number_leaves(self)
            /\ ret.op = "get_level" => ret.val.list = d[PyIndex(d, ret.args.level)]

C10_Witness ==
    /\ ProperTree /\ self.nvals = 4
    /\ ret.op = "data" /\ ret.exc = "none"
    /\ Len0(ret.val.list) = 4
    /\ \E i \in 0..3 : RSign(self.values[i]) < 0

\* ---------------------------------------------------------------- claims on QSVE

RECURSIVE FrobeniusSqFrom(_, _)
FrobeniusSqFrom(m, i) ==
    IF i >= Len0(m) THEN R(0) ELSE RAdd(SumSquares(m[i]), FrobeniusSqFrom(m, i + 1))

\* The squared Frobenius norm of a matrix: the sum of the squares of its entries.
FrobeniusSq(m) == FrobeniusSqFrom(m, 0)

HasQSVE == qsve /= NoQSVE

FirstShift == HasQSVE /\ shiftCalls = 0 /\ ret'.op = "shift_matrix"

C6_ShiftedIsOneWay ==
    [][HasQSVE =>
          /\ ret.op = "QSVE.__init__" => ~qsve.shifted
          /\ qsve.shifted => qsve'.shifted
          /\ ret'.op = "shift_matrix" => qsve'.shifted
          /\ (ret'.op = "shift_matrix" /\ shiftCalls >= 1) =>
                 (qsve'.matrix = qsve.matrix /\ qsve'.trees = qsve.trees)]_vars

C6_Witness ==
    /\ HasQSVE /\ ret.op = "shift_matrix" /\ shiftCalls = 2
    /\ qsve.shifted
    /\ qsve.matrix[0][0] /= original[0][0]

C11_FailsFastUnlessSquarePowerOfTwo ==
    ret.op = "QSVE.__init__" =>
        LET nrows == Len0(original)
            square == \A i \in DOMAIN original : Len0(original[i]) = nrows
            valid == square /\ IsPowerOfTwo(nrows)
        IN  /\ ~valid => /\ ret.exc = "ValueError"
                         /\ ret.val.assigned \cap {"matrix", "trees", "shifted"} = {}
                         /\ ~HasQSVE
            /\ valid => /\ ret.exc = "none"
                        /\ HasQSVE
                        /\ DOMAIN qsve.trees = DOMAIN original
                        /\ \A i \in DOMAIN original : qsve.trees[i].values = original[i]

\* What construction does instead: the claim holds for every matrix with at
\* least one row, and the matrix of shape (0, 0) is rejected with OverflowError.
QSVEInitRaisesOverflowErrorWhenEmpty ==
    ret.op = "QSVE.__init__" =>
        IF Len0(original) = 0 THEN ret.exc = "OverflowError" /\ ~HasQSVE
        ELSE C11_FailsFastUnlessSquarePowerOfTwo

\* ---------------------------------------------------------------- claims on the argument checks

PrepCalled == ret.op = "preparation_circuit"

\* The arguments after register are absent, or a control register with one of its valid keys.
ValidControlArgs ==
    IF ret.args.control_register = None THEN ret.args.control_key = None
    ELSE /\ ret.args.control_key /= None
         /\ ValidKey(ret.args.control_key, ret.args.control_register.len)

\* C12: preparation_circuit raises ValueError for insufficient capacity exactly
\* when 2^len(register) < number_leaves, and then returns no circuit; every
\* register with at least log2(number_leaves) qubits is accepted.
C12_CapacityError ==
    PrepCalled =>
        LET tooSmall == \A k \in 0..ret.args.nreg : Pow2(k) < number_leaves(self)
        IN  /\ tooSmall => ret.exc = "ValueError" /\ ret.val = None
            /\ (~tooSmall /\ ValidControlArgs) =>
                   /\ ret.exc = "none"
                   /\ ret.val.nreg = ret.args.nreg
            /\ ValidControlArgs => (ret.exc = "ValueError" <=> tooSmall)

C12_Witness ==
    /\ PrepCalled /\ ret.exc = "ValueError" /\ ValidControlArgs
    /\ self.nvals = 4 /\ ret.args.nreg = 1

IntKeyGiven ==
    /\ PrepCalled
    /\ ret.args.control_register /= None /\ ret.args.control_key /= None
    /\ ret.args.control_key.type = "int"

\* C13: with an n-qubit control register, preparation_circuit raises ValueError
\* for every integer control_key outside [0, 2^n), too large or negative, and
\* emits no circuit.
C13_IntKeyOutOfRangeRaises ==
    (IntKeyGiven /\ ~ValidKey(ret.args.control_key, ret.args.control_register.len)) =>
        ret.exc = "ValueError" /\ ret.val = None

\* What the code does instead: the range test never fires, and an integer key
\* is rejected when its binary_repr has more than n characters, which is so for
\* k >= 2^n and for k < -2^(n-1); the keys -2^(n-1)..-1 are accepted.
IntKeyRejectedWhenReprTooLong ==
    (IntKeyGiven /\ ~CapacityTest(self, ret.args.nreg)) =>
        LET n == ret.args.control_register.len
            k == ret.args.control_key.int
        IN  (ret.exc = "ValueError") <=> (k >= Pow2(n) \/ 2 * k < 0 - Pow2(n))

StrKeyGiven ==
    /\ PrepCalled
    /\ ret.args.control_register /= None /\ ret.args.control_key /= None
    /\ ret.args.control_key.type = "str"

\* C14: with an n-qubit control register, preparation_circuit raises ValueError
\* for every string control_key that is not n characters each '0' or '1', and
\* emits no circuit.
C14_MalformedStringKeyRaises ==
    (StrKeyGiven /\ ~ValidKey(ret.args.control_key, ret.args.control_register.len)) =>
        ret.exc = "ValueError" /\ ret.val = None

\* What the code does instead: only the length of a string key is tested.
StrKeyRejectedWhenLengthDiffers ==
    (StrKeyGiven /\ ~CapacityTest(self, ret.args.nreg)) =>
        ((ret.exc = "ValueError") <=>
             Len(ret.args.control_key.str) /= ret.args.control_register.len)

\* C18: preparation_circuit raises ValueError whenever exactly one of
\* control_register and control_key is supplied, before any gate is emitted.
C18_RegisterAndKeyGoTogether ==
    (PrepCalled /\ (ret.args.control_register = None) /= (ret.args.control_key = None)) =>
        ret.exc = "ValueError" /\ ret.val = None

C18_Witness ==
    /\ PrepCalled /\ ret.exc = "ValueError"
    /\ ret.args.control_register = None /\ ret.args.control_key /= None
    /\ self.nvals = 4 /\ ret.args.nreg = 2

\* ---------------------------------------------------------------- claims on the control key

\* The n-character binary string of k, most significant bit first.
MsbFirst(k, n) == [i \in 1..n |-> IF (k \div Pow2(n - i)) % 2 = 1 THEN "1" ELSE "0"]

\* The characters of a valid key.
KeyString(key, n) == IF key.type = "int" THEN MsbFirst(key.int, n) ELSE key.str

\* The control qubits in basis state c let the gates act: qubit i is 0 where
\* character i of the key is '1' (anti-control) and 1 where it is '0' (control).
Fires(c, ks) == \A i \in 1..Len(ks) : c[Ctrl(i - 1)] = IF ks[i] = "1" THEN 0 ELSE 1

\* The circuit circ, run with the target register at zero and the control
\* qubits in basis state c, acts on the target register as the circuit u built
\* without a control register when the controls fire, and not at all otherwise.
GovernedBy(circ, u, ks, c) ==
    LET Q == Qubits(circ.nreg, circ.nctrl)
        b0 == [q \in Q |-> IF q[1] = "ctrl" THEN c[q] ELSE 0]
        st == RunFrom(circ.gates, 1, Ket(b0))
        free == FinalState(u)
        expected(b) ==
            IF \E q \in DOMAIN c : b[q] /= c[q] THEN AZero
            ELSE IF Fires(c, ks) THEN AmpAt(free, [q \in Qubits(u.nreg, 0) |-> b[q]])
            ELSE IF b = b0 THEN AOne ELSE AZero
    IN  \A b \in [Q -> {0, 1}] : AEq(AmpAt(st, b), expected(b))

\* C17: for an n-qubit control register and every integer k in [0, 2^n),
\* control_key = k gives the same instruction sequence as the n-character
\* most-significant-bit-first binary string of k; character i of the key governs
\* control qubit i, '1' making it an anti-control and '0' a plain control.
C17_IntKeyIsItsBinaryString ==
    (Controlled /\ self.nvals >= 2) =>
        LET n == ret.args.control_register.len
            key == ret.args.control_key
            ks == KeyString(key, n)
            free == preparation_circuit(self, ret.args.nreg, None, None).val
        IN  /\ key.type = "int" =>
                   ret.val = preparation_circuit(self, ret.args.nreg,
                                                 ret.args.control_register, StrKey(ks)).val
            /\ \A c \in [{Ctrl(i) : i \in 0..(n - 1)} -> {0, 1}] :
                   GovernedBy(ret.val, free, ks, c)

C17_Witness ==
    /\ Controlled /\ self.nvals = 4
    /\ ret.args.control_register.len = 2
    /\ ret.args.control_key = IntKey(1)
    /\ RSign(self.values[0]) /= 0 /\ RSign(self.values[3]) /= 0

\* ---------------------------------------------------------------- claims on ownership and build

\* Row i of the stored matrix and the leaves of row tree i are the same list.
TreesMirrorMatrix(q) == \A i \in DOMAIN q.matrix : q.trees[i].values = q.matrix[i]

\* C15: for every sequence of public operations on a QSVE instance, get_tree and
\* the operations of the tree it returns among them, the row trees and the
\* stored matrix change only through shift_matrix, so that in every reachable
\* state the leaves of row tree i equal row i of the stored matrix.
C15_OnlyShiftChangesTreesAndMatrix ==
    [][HasQSVE =>
          /\ (qsve'.trees /= qsve.trees \/ qsve'.matrix /= qsve.matrix) =>
                 ret'.op = "shift_matrix"
          /\ TreesMirrorMatrix(qsve')]_vars

\* What holds instead: the matrix and the trees change only through shift_matrix
\* and through update_entry on a tree that get_tree returned, and they agree as
\* long as the caller has made no such update.
TreesMirrorMatrixUntilCallerUpdates ==
    [][HasQSVE =>
          /\ (qsve'.trees /= qsve.trees \/ qsve'.matrix /= qsve.matrix) =>
                 ret'.op \in {"shift_matrix", "get_tree.update_entry"}
          /\ treeUpdates' = 0 => TreesMirrorMatrix(qsve')]_vars

\* C16: every operation other than shift_matrix and update_entry leaves the
\* leaf values and levels of every tree, the stored matrix and the shifted flag
\* unchanged.
C16_OtherOperationsChangeNothing ==
    [][ret'.op \notin {"shift_matrix", "update_entry"} =>
          (self' = self /\ built' = built /\ qsve' = qsve)]_vars

C16_Witness ==
    \/ /\ ret.op = "preparation_circuit" /\ ret.exc = "none"
       /\ self.nvals = 4 /\ ret.val.gates /= <<>>
       /\ RSign(self.values[1]) < 0
    \/ /\ ret.op = "matrix_norm" /\ HasQSVE /\ qsve.shifted
       /\ qsve.matrix_nrows = 2 /\ ret.val.b /= 0

\* C19: build raises ValueError and leaves the circuit unchanged when the
\* circuit has fewer than four quantum registers, when row_register and
\* col_register differ in their number of qubits, or when row_register does not
\* have log2(matrix dimension) qubits; the row and column qubit counts of an
\* instance are both log2(dimension).
C19_BuildRejectsWrongRegisters ==
    [][HasQSVE =>
          /\ Pow2(qsve.num_qubits_for_row) = Len0(qsve.matrix)
          /\ Pow2(qsve.num_qubits_for_col) = Len0(qsve.matrix)
          /\ (ret'.op = "build" /\ ret'.args.circuit = circuit) =>
                 LET nrow == ret'.args.row_register.len
                     ncol == ret'.args.col_register.len
                 IN  (circuit.nqregs < 4 \/ nrow /= ncol \/ Pow2(nrow) /= Len0(qsve.matrix))
                         => (ret'.exc = "ValueError" /\ circuit' = circuit)]_vars

C19_Witness ==
    /\ HasQSVE /\ ret.op = "build" /\ ret.exc = "ValueError"
    /\ qsve.matrix_nrows = 2
    /\ ret.args.circuit = circuit /\ circuit.nqregs = 4 /\ circuit.data /= <<>>
    /\ ret.args.row_register.len = 2 /\ ret.args.col_register.len = 2
    /\ ret.args.pkb_register = Register(1)

\* C20: when build returns normally, pkb_register being a one-qubit register or
\* a single qubit, the circuit's instruction sequence is its previous sequence,
\* unmodified, followed by a non-empty sequence of gates (one controlled-W).
C20_BuildAppendsControlledW ==
    [][(HasQSVE /\ ret'.op = "build" /\ ret'.exc = "none"
          /\ ret'.args.pkb_register \in {Register(1), Qubit}) =>
          /\ Len(circuit'.data) > Len(circuit.data)
          /\ SubSeq(circuit'.data, 1, Len(circuit.data)) = circuit.data]_vars

\* What build does instead: it never changes the circuit, and with a single
\* qubit as pkb_register it does not return normally.
BuildAppendsNothing ==
    [][(HasQSVE /\ ret'.op = "build") =>
          /\ circuit' = circuit
          /\ ret'.args.pkb_register = Qubit => ret'.exc /= "none"]_vars

\* ---------------------------------------------------------------- claims on the row-norm tree

RECURSIVE NumeralFrom(_, _)
NumeralFrom(bits, n) ==
    IF n = 0 THEN 0 ELSE 2 * NumeralFrom(bits, n - 1) + (IF bits[n] = "1" THEN 1 ELSE 0)

InOrder(bits, big_endian) ==
    IF big_endian THEN bits ELSE [k \in 1..Len(bits) |-> bits[Len(bits) + 1 - k]]

\* C22: the fraction of an n-bit measured string is the sum of bit_k * 2^-(k+1)
\* in the requested bit order, a number in [0,1); convert_measured maps it to
\* itself when it is at most 1/2 and to the fraction minus one otherwise, so the
\* result lies in (-1/2, 1/2]; 0.25 decodes to 0.25 and 0.75 to -0.25.
C22_PhaseConversion ==
    /\ (HasQSVE /\ ret.op = "binary_decimal_to_float") =>
           LET b == InOrder(ret.args.bits, ret.args.big_endian)
               f == ret.val
           IN  /\ f.num * Pow2(Len(b)) = NumeralFrom(b, Len(b)) * f.den
               /\ 0 <= f.num /\ f.num < f.den
    /\ (HasQSVE /\ ret.op = "convert_measured") =>
           LET f == ret.args.theta
               p == ret.val
           IN  /\ 2 * f.num <= f.den => p = f
               /\ 2 * f.num > f.den => (p.den = f.den /\ p.num = f.num - f.den)
               /\ 0 - p.den < 2 * p.num /\ 2 * p.num <= p.den
               /\ f = Frac(1, 4) => p = Frac(1, 4)
               /\ f = Frac(3, 4) => p = Frac(0 - 1, 4)

C22_Witness ==
    /\ HasQSVE /\ ret.op = "convert_measured"
    /\ ret.args.bits = <<"1", "1">> /\ ~ret.args.big_endian
    /\ ret.args.theta = Frac(3, 4)
    /\ ret.val = Frac(0 - 1, 4)

\* ---------------------------------------------------------------- claims on the isometries

\* An amplitude that is a rational number, as the fraction p/q.
Rational(x) == x.s /= 2 /\ x.n.b = 0 /\ x.d.b = 0 /\ IsSquare(x.n.a * x.d.a)

RECURSIVE Gcd(_, _)
Gcd(x, y) == IF y = 0 THEN x ELSE Gcd(y, x % y)

\* The fraction p/q, q > 0, in lowest terms.
Lowest(p, q) ==
    LET g == Gcd(IF p < 0 THEN 0 - p ELSE p, q)
    IN  [p |-> p \div g, q |-> q \div g]

TermFrac(x) ==
    IF x.s = 0 THEN [p |-> 0, q |-> 1]
    ELSE Lowest(x.s * IntRoot(x.n.a * x.d.a), x.d.a)

RECURSIVE FracSumFrom(_, _)
FracSumFrom(ts, k) ==
    IF k >= Len0(ts) THEN [p |-> 0, q |-> 1]
    ELSE LET x == TermFrac(ts[k])
             y == FracSumFrom(ts, k + 1)
         IN  Lowest(x.p * y.q + y.p * x.q, x.q * y.q)

\* Entry (c, c2) of M^T N: the sum over the rows k of M[k][c] * N[k][c2].
Dot(M, N, c, c2) ==
    LET ts == [k \in DOMAIN M |-> AMul(M[k][c], N[k][c2])]
        nz == {k \in DOMAIN ts : ts[k].s /= 0}
    IN  IF nz = {} THEN AZero
        ELSE IF Cardinality(nz) = 1 THEN ts[CHOOSE k \in nz : TRUE]
        ELSE IF \A k \in nz : Rational(ts[k])
        THEN LET f == FracSumFrom(ts, 0)
             IN  IF f.p = 0 THEN AZero ELSE Amp(IntSign(f.p), R(f.p * f.p), R(f.q * f.q))
        ELSE AOther

IsIdentity(M, N, n) ==
    \A c \in 0..(n - 1) : \A c2 \in 0..(n - 1) :
        AEq(Dot(M, N, c, c2), IF c = c2 THEN AOne ELSE AZero)

\* Entry (i, j) of matrix / ||matrix||_F.
Normalized(m, i, j) ==
    IF RSign(m[i][j]) = 0 THEN AZero
    ELSE Amp(RSign(m[i][j]), RMul(m[i][j], m[i][j]), FrobeniusSq(m))

IsNormalizedMatrix(M, N, m) ==
    \A i \in DOMAIN m : \A j \in DOMAIN m : AEq(Dot(M, N, i, j), Normalized(m, i, j))

IsometryCalled == HasQSVE /\ ret.op \in {"row_isometry", "norm_isometry"}

Symmetric(m) == \A i \in DOMAIN m : \A j \in DOMAIN m : m[i][j] = m[j][i]

IsRotation(g) == g.gate \in {"ry", "mcry"}

IsFlip(g) == g.gate \in {"x", "mct"}

\* The positions of the rotations in a gate sequence, and the k-th of them.
RotationPositions(gates) == {p \in 1..Len(gates) : IsRotation(gates[p])}

NthPosition(S, k) == CHOOSE p \in S : Cardinality({x \in S : x < p}) = k - 1

\* The nodes above the leaf level whose value is not zero, and the k-th of
\* them in level-major order.
NonzeroNodes(t) ==
    {n \in {At(l, i) : l \in 0..(number_levels(t) - 2), i \in 0..(t.nvals - 1)} :
        /\ n.index < Pow2(n.level)
        /\ RSign(t.tree[n.level][n.index]) /= 0}

Before(m, n) == m.level < n.level \/ (m.level = n.level /\ m.index < n.index)

NthNode(t, k) ==
    CHOOSE n \in NonzeroNodes(t) : Cardinality({m \in NonzeroNodes(t) : Before(m, n)}) = k - 1

\* One rotation for every nonzero node above the leaves.
OneRotationPerNode(t, gates) ==
    Cardinality(RotationPositions(gates)) = Cardinality(NonzeroNodes(t))

\* C24: at the deepest rotation level the angle of a node follows the signs of
\* its two leaves, (+,+) 2*arccos(sqrt(left/parent)), (-,+) 2*arcsin(..) + pi,
\* (+,-) 2*arcsin(..) - pi, (-,-) 2*arccos(..) + pi; a bit flip of the target
\* qubit with the rotation's controls comes immediately before the rotation
\* exactly when both leaves are negative.  At every other level the angle is
\* 2*arccos(sqrt(left/parent)) and no bit flip of the target precedes the rotation.
C24_SignCases ==
    Prepared =>
        LET gates == ret.val.gates
            rots == RotationPositions(gates)
        IN  /\ OneRotationPerNode(self, gates)
            /\ \A k \in 1..Cardinality(rots) :
                   LET p == NthPosition(rots, k)
                       n == NthNode(self, k)
                       g == gates[p]
                       parent == self.tree[n.level][n.index]
                       left == self.tree[n.level + 1][2 * n.index]
                       deepest == n.level = number_levels(self) - 2
                       l == RSign(self.values[2 * n.index])
                       r == RSign(self.values[2 * n.index + 1])
                       extra == /\ p > 1
                                /\ IsFlip(gates[p - 1])
                                /\ gates[p - 1].target = g.target
                   IN  /\ (deepest /\ l > 0 /\ r > 0) => g.theta = Angle("arccos", left, parent, 0)
                       /\ (deepest /\ l < 0 /\ r > 0) => g.theta = Angle("arcsin", left, parent, 1)
                       /\ (deepest /\ l > 0 /\ r < 0) => g.theta = Angle("arcsin", left, parent, 0 - 1)
                       /\ (deepest /\ l < 0 /\ r < 0) => g.theta = Angle("arccos", left, parent, 1)
                       /\ ~deepest => g.theta = Angle("arccos", left, parent, 0)
                       /\ extra <=> (deepest /\ l < 0 /\ r < 0)
                       /\ extra => gates[p - 1].controls = g.controls

C24_Witness ==
    /\ Prepared /\ self.nvals = 4
    /\ ret.args.control_register /= None
    /\ RSign(self.values[0]) < 0 /\ RSign(self.values[1]) < 0
    /\ RSign(self.values[2]) < 0 /\ RSign(self.values[3]) > 0
    /\ \E p \in 2..Len(ret.val.gates) :
           /\ ret.val.gates[p].theta = Angle("arccos", R(1), R(2), 1)
           /\ ret.val.gates[p - 1].gate = "mct"
           /\ ret.val.gates[p - 1].target = Reg(1)

\* The external control qubits of the call, in register order.
ControlQubits == 
    IF ret.args.control_register = None THEN <<>>
    ELSE [k \in 1..ret.args.control_register.len |-> Ctrl(k - 1)]

\* C25: the rotations come in level-major order, levels 0 to number_levels - 2
\* and nodes left to right, one for each nonzero node and none else; the
\* rotation of node (l, i) has the angle of that node, targets register[l] and
\* is controlled on exactly the external control qubits followed by
\* register[0..l-1]; without a control register the rotation at level 0 is an
\* uncontrolled rotation.
C25_RotationOrderAndControls ==
    Prepared =>
        LET gates == ret.val.gates
            rots == RotationPositions(gates)
        IN  /\ OneRotationPerNode(self, gates)
            /\ \A k \in 1..Cardinality(rots) :
                   LET n == NthNode(self, k)
                       g == gates[NthPosition(rots, k)]
                   IN  /\ g.target = Reg(n.level)
                       /\ g.controls = ControlQubits \o [q \in 1..n.level |-> Reg(q - 1)]
                       /\ g.theta.num = self.tree[n.level + 1][2 * n.index]
                       /\ g.theta.den = self.tree[n.level][n.index]
                       /\ g.gate = "ry" <=> g.controls = <<>>
                       /\ (n.level = 0 /\ ret.args.control_register = None) => g.gate = "ry"

C25_Witness ==
    /\ Prepared /\ self.nvals = 4
    /\ ret.args.control_register = None
    /\ Cardinality(RotationPositions(ret.val.gates)) = 3
    /\ ret.val.gates[1].gate = "ry"
    /\ self.tree[1][0] /= self.tree[1][1]
    /\ \E p \in 1..Len(ret.val.gates) :
           /\ ret.val.gates[p].gate = "mcry"
           /\ ret.val.gates[p].controls = <<Reg(0)>>

\* The register qubits k < l at which the l-bit binary form of i, most
\* significant bit first, has a 0.
ZeroBits(n) == {q \in 0..(n.level - 1) : (n.index \div Pow2(n.level - 1 - q)) % 2 = 0}

\* The bit flip that makes register qubit q an anti-control.
AntiControlFlip(q) ==
    IF ControlQubits = <<>> THEN XGate(Reg(q))
    ELSE Gate("mct", None, ControlQubits, Reg(q), FALSE)

ExtraFlipAt(gates, p) == p > 1 /\ IsFlip(gates[p - 1]) /\ gates[p - 1].target = gates[p].target

\* The first and the last position of the gates of the k-th rotation's node.
SegmentStart(gates, k) ==
    LET p == NthPosition(RotationPositions(gates), k)
    IN  p - (IF ExtraFlipAt(gates, p) THEN 1 ELSE 0) - Cardinality(ZeroBits(NthNode(self, k)))

SegmentEnd(gates, k) ==
    NthPosition(RotationPositions(gates), k) + Cardinality(ZeroBits(NthNode(self, k)))

KeyOnes(gates) == Cardinality({p \in 1..Len(gates) : gates[p].target[1] = "ctrl"}) \div 2

\* C26: for every node (l, i) that receives a rotation, bit flips are emitted
\* before the rotation on exactly the register qubits k < l at which the l-bit
\* binary form of i has a 0, and the same bit flips again after the rotation,
\* each controlled on the external control register when one is given; the
\* gates of the nodes follow one another with nothing in between, and every
\* register qubit is the target of an even number of these bit flips.
C26_AntiControlFlipsRestore ==
    Prepared =>
        LET gates == ret.val.gates
            rots == RotationPositions(gates)
            count == Cardinality(rots)
        IN  /\ OneRotationPerNode(self, gates)
            /\ \A k \in 1..count :
                   LET n == NthNode(self, k)
                       p == NthPosition(rots, k)
                       Z == ZeroBits(n)
                       start == SegmentStart(gates, k)
                   IN  /\ start >= 1 /\ p + Cardinality(Z) <= Len(gates)
                       /\ n.level = 0 => Z = {}
                       /\ \A j \in 1..Cardinality(Z) :
                              /\ gates[start + j - 1] = AntiControlFlip(NthPosition(Z, j))
                              /\ gates[p + j] = AntiControlFlip(NthPosition(Z, j))
                       /\ k = 1 => start = KeyOnes(gates) + 1
                       /\ k < count => SegmentStart(gates, k + 1) = SegmentEnd(gates, k) + 1
                       /\ k = count => SegmentEnd(gates, k) = Len(gates) - KeyOnes(gates)
            /\ \A q \in 0..(ret.val.nreg - 1) :
                   Cardinality({p \in 1..Len(gates) :
                                   /\ IsFlip(gates[p])
                                   /\ gates[p].target = Reg(q)
                                   /\ ~(p < Len(gates) /\ IsRotation(gates[p + 1])
                                        /\ gates[p + 1].target = Reg(q))}) % 2 = 0

C26_Witness ==
    /\ Prepared /\ self.nvals = 4
    /\ ret.args.control_register = Register(1)
    /\ RSign(self.tree[1][0]) /= 0
    /\ \E p \in 2..(Len(ret.val.gates) - 1) :
           /\ ret.val.gates[p].gate = "mcry"
           /\ ret.val.gates[p].target = Reg(1)
           /\ ret.val.gates[p - 1] = Gate("mct", None, <<Ctrl(0)>>, Reg(0), FALSE)
           /\ ret.val.gates[p + 1] = Gate("mct", None, <<Ctrl(0)>>, Reg(0), FALSE)

\* The number of gates of a nonzero node: the rotation, the extra bit flip when
\* both leaves are negative, and two bit flips for every anti-control.
NodeGateCount(t, n) ==
    1 + 2 * Cardinality(ZeroBits(n))
      + (IF /\ n.level = number_levels(t) - 2
            /\ RSign(t.values[2 * n.index]) < 0
            /\ RSign(t.values[2 * n.index + 1]) < 0 THEN 1 ELSE 0)

RECURSIVE GateCountFrom(_, _)
GateCountFrom(t, k) ==
    IF k > Cardinality(NonzeroNodes(t)) THEN 0
    ELSE NodeGateCount(t, NthNode(t, k)) + GateCountFrom(t, k + 1)

\* C27: a node whose value is zero contributes no gate at all, neither
\* rotation nor extra bit flip nor anti-control bit flips: the gates on the
\* target register are those of the nonzero nodes and no more, and the number
\* of rotations is the number of nonzero nodes above the leaves,
\* number_leaves - 1 when none of them is zero.
C27_ZeroNodesEmitNothing ==
    Prepared =>
        LET gates == ret.val.gates
            onreg == {p \in 1..Len(gates) : gates[p].target[1] = "reg"}
            above == {At(l, i) : l \in 0..(number_levels(self) - 2), i \in 0..(self.nvals - 1)}
        IN  /\ Cardinality(RotationPositions(gates)) = Cardinality(NonzeroNodes(self))
            /\ Cardinality(onreg) = GateCountFrom(self, 1)
            /\ (\A n \in above : n.index < Pow2(n.level) => RSign(self.tree[n.level][n.index]) /= 0)
                   => Cardinality(RotationPositions(gates)) = number_leaves(self) - 1
            /\ NonzeroNodes(self) = {} => onreg = {}

C27_Witness ==
    /\ Prepared /\ self.nvals = 4
    /\ RSign(self.tree[1][0]) /= 0
    /\ RSign(self.tree[1][1]) = 0
    /\ ret.args.control_register = None
    /\ Cardinality(RotationPositions(ret.val.gates)) = 2
    /\ Len(ret.val.gates) = 4

\* The characters of an accepted key of an n-qubit control register: the
\* string itself, or the n-bit two's complement of the integer.
KeyCharacters(key, n) == IF key.type = "int" THEN MsbFirst(key.int % Pow2(n), n) ELSE key.str

\* C28: with a control register, the circuit starts with an X on control qubit i
\* for exactly the characters i of the key that are '1', in order, ends with the
\* same X pattern, and no other gate targets a control qubit; run from any
\* basis state of the control register, the circuit leaves the control
\* register in that basis state.
C28_ControlRegisterRestored ==
    (Prepared /\ ret.args.control_register /= None) =>
        LET gates == ret.val.gates
            n == ret.args.control_register.len
            ks == KeyCharacters(ret.args.control_key, n)
            ones == {i \in 0..(n - 1) : ks[i + 1] = "1"}
            m == Cardinality(ones)
            Q == Qubits(ret.val.nreg, ret.val.nctrl)
        IN  /\ Len(gates) >= 2 * m
            /\ \A j \in 1..m :
                   /\ gates[j] = XGate(Ctrl(NthPosition(ones, j)))
                   /\ gates[Len(gates) - m + j] = XGate(Ctrl(NthPosition(ones, j)))
            /\ \A p \in 1..Len(gates) :
                   gates[p].target[1] = "ctrl" <=> (p <= m \/ p > Len(gates) - m)
            /\ \A p \in RotationPositions(gates) : m < p /\ p <= Len(gates) - m
            /\ \A c \in [{Ctrl(i) : i \in 0..(n - 1)} -> {0, 1}] :
                   LET b0 == [q \in Q |-> IF q[1] = "ctrl" THEN c[q] ELSE 0]
                       st == RunFrom(gates, 1, Ket(b0))
                   IN  \A b \in DOMAIN st : \A q \in DOMAIN c : b[q] = c[q]

C28_Witness ==
    /\ Prepared /\ self.nvals = 4
    /\ ret.args.control_register = Register(2)
    /\ ret.args.control_key = StrKey(<<"0", "1">>)
    /\ RSign(self.values[0]) /= 0 /\ RSign(self.values[3]) /= 0
    /\ ret.val.gates[1] = XGate(Ctrl(1))
    /\ ret.val.gates[Len(ret.val.gates)] = XGate(Ctrl(1))
    /\ Cardinality(RotationPositions(ret.val.gates)) = 3

\* ---------------------------------------------------------------- claims on copies and indices

CallerWrote == ret'.op \in {"vector[index] = value", "matrix[row][col] = value"}

\* C29: BinaryTree and QSVE work on copies: the object the instance stores is
\* never the object the caller passed; update_entry and shift_matrix leave the
\* caller's vector or matrix as it is, and an item assignment by the caller to
\* that vector or matrix changes neither the leaves and levels of the tree nor
\* the stored matrix and row trees of the engine.
C29_WorksOnCopies ==
    [][/\ (built \/ HasQSVE) => stored /= "arg"
       /\ ret.op \in {"__init__", "QSVE.__init__"} =>
              (IF built THEN self.values = original
               ELSE HasQSVE => qsve.matrix = original)
       /\ ret'.op \in {"update_entry", "shift_matrix"} => original' = original
       /\ CallerWrote => (self' = self /\ qsve' = qsve)]_vars

C29_Witness ==
    /\ HasQSVE /\ ret.op = "shift_matrix" /\ qsve.shifted
    /\ qsve.matrix_nrows = 2
    /\ original[0][1] /= qsve.matrix[0][1]
    /\ RSign(original[0][0]) = 0
    /\ qsve.matrix[0][0].b /= 0

UpdateCalled == built /\ ret'.op = "update_entry"

\* C30 as claimed: update_entry with an index outside [0, number_leaves) raises
\* an error and leaves the leaves and every level of the tree unchanged.
C30_Original ==
    [][(UpdateCalled /\ ~(0 <= ret'.args.index /\ ret'.args.index < number_leaves(self))) =>
           (ret'.exc /= "none" /\ self' = self)]_vars

\* C30, amended: update_entry with an index outside
\* [-number_leaves, number_leaves) raises IndexError and leaves the leaves and
\* every level of the tree unchanged; an index in [-number_leaves, 0) counts
\* from the end of the leaves and updates leaf number_leaves + index.
C30_IndexErrorLeavesTreeUnchanged ==
    [][UpdateCalled =>
           LET index == ret'.args.index
               n == number_leaves(self)
           IN  /\ (index < 0 - n \/ index >= n) =>
                      (ret'.exc = "IndexError" /\ self' = self)
               /\ (0 - n <= index /\ index < 0) =>
                      /\ ret'.exc = "none"
                      /\ self'.values = [self.values EXCEPT ![n + index] = ret'.args.value]]_vars

C30_Witness ==
    /\ built /\ ret.op = "update_entry" /\ ret.exc = "IndexError"
    /\ self.nvals = 4
    /\ ret.args.index = 0 - 5
    /\ RSign(ret.args.value) /= 0
    /\ RSign(self.values[3]) < 0 /\ RSign(self.values[0]) > 0

====
